---- MODULE Spec2Model ----
(***************************************************************************)
(* Model of psshlib/manager.py: Manager (bounded task scheduler), IOMap    *)
(* (descriptor registry over select.poll) and Writer (queue-fed thread).   *)
(*                                                                         *)
(* Time is counted in ticks, OneUnit ticks to the second, so that waits    *)
(* and time budgets below one second exist.  The main thread is modelled   *)
(* statement by statement inside run()'s try block, because Python raises  *)
(* KeyboardInterrupt in the main thread between any two bytecodes.         *)
(***************************************************************************)
EXTENDS Integers, Sequences, FiniteSets, TLC

\* ---- bounds ------------------------------------------------------------
MaxTasks == 3
MaxLimit == 2
MaxWrites == 1
MaxQueue == 3
MaxTime == 4
MaxFd == 2

\* ---- values ------------------------------------------------------------
OneUnit == 2            \* ticks in the "1" of `wait < 1` / `wait = 1`
None == -1              \* Python None (orders below every number in Python 2)
EOF == 0                \* Writer.EOF payload
ABORT == 0              \* Writer.ABORT destination
Timeouts == {-1, 0, 3}  \* timeout argument, in ticks
POLLIN == 1             \* select.POLLIN
POLLOUT == 4            \* select.POLLOUT
FDs == 1..MaxFd         \* file descriptors
Handlers == {1, 2}      \* handler callables
Files == {1, 2}         \* destination files of the Writer's clients
TaskIds == 1..(MaxTasks)

VARIABLES
    limit, timeout,         \* Manager.__init__ arguments
    nadded,                 \* number of add_task() calls made
    tasks, running, done,   \* Manager's three lists
    pc,                     \* position of the main thread
    wait,                   \* run(): local wait
    cur,                    \* start_tasks(): local task
    idx,                    \* position of the for loop in progress
    still_running,          \* check_tasks(): local list
    min_timeleft,           \* check_timeout(): local
    aborted,                \* a KeyboardInterrupt has been raised
    abort_at,               \* where it was raised: "poll" (inside self.iomap.poll),
                            \* "step" (any other statement), "" if none
    now,                    \* clock, in ticks
    outdir,                 \* task.outdir or task.errdir, per task
    tstate,                 \* per task: "new", "active" (running() is true), "exited"
    start_time,             \* per task: clock value at start()
    overran,                \* per task: it was still active later than timeout after its start
    calls,                  \* per task: the Manager's calls it has received
    examined,               \* per task: check_timeout saw it with elapsed >= timeout
    reported,               \* log of report(n) calls, in order
    writer,                 \* run(): local writer (TRUE: a Writer, FALSE: None)
    enqueued,               \* every entry ever put on Writer.queue, in order
    whead,                  \* index in enqueued of the next entry queue.get() returns
    wstatus,                \* Writer thread: "none", "running", "returned", "dead"
    map, poller,            \* IOMap.map, and the interest set of IOMap.poller
    io_call, io_err,        \* last IOMap call and the exception it raised
    ready,                  \* poll(): what is left of the list self.poller.poll() returned
    handling                \* poll(): the handler of the first ready descriptor is executing

mvars == <<limit, timeout, nadded, abort_at, tasks, running, done, pc, wait, cur, idx,
           still_running, min_timeleft, aborted, now, outdir, tstate,
           start_time, overran, calls, examined, reported>>
wvars == <<writer, enqueued, whead, wstatus>>
iovars == <<map, poller, io_call, io_err, ready, handling>>
vars == <<mvars, wvars, iovars>>

\* ---- helpers -----------------------------------------------------------
Range(s) == {s[i] : i \in 1..Len(s)}

Max(a, b) == IF a >= b THEN a ELSE b

\* task.elapsed()
elapsed(t) == now - start_time[t]

\* task.running()
task_running(t) == tstate[t] = "active"

\* Writer.write(fd, data): self.queue.put((fd, data))
queue_put(q, fd, data) == Append(q, <<fd, data>>)

\* ---- Manager -----------------------------------------------------------
\* finished(): self.done.append(task)
done_append(d, t) == Append(d, t)

\* finished(): n = len(self.done); task.report(n)
report_call(log, d, t, by) == Append(log, [task |-> t, n |-> Len(d), by |-> by])

start_tasks_cond_off_by_one == 0 < Len(tasks) /\ Len(running) <= limit

\* start_tasks(): the while condition
start_tasks_cond == 0 < Len(tasks) /\ Len(running) < limit

\* run(): the while condition
run_loop_cond == running # <<>> \/ tasks # <<>>

clamp_wait_missing(w) == w

\* run(): if wait == None or wait < 1: wait = 1
clamp_wait(w) == IF w = None \/ w < OneUnit THEN OneUnit ELSE w

check_timeout_disabled_strict == timeout < 0

\* check_timeout(): if self.timeout <= 0: return None
check_timeout_disabled == timeout <= 0

\* check_timeout(): timeleft = self.timeout - task.elapsed()
timeleft_of(t) == timeout - elapsed(t)

is_timedout_strict(timeleft) == timeleft < 0

\* check_timeout(): if timeleft <= 0: task.timedout()
is_timedout(timeleft) == timeleft <= 0

\* check_timeout(): return max(0, min_timeleft); in Python 2 None compares
\* below every integer, so max(0, None) is 0
check_timeout_result(m) == IF m = None THEN 0 ELSE Max(0, m)

\* the statements of run() covered by try ... except KeyboardInterrupt
TryPcs == {"start_test", "start_pop", "start_append", "start_call",
           "loop_test", "poll", "dispatch", "check_test", "fin_append", "fin_report",
           "check_assign", "timeout_test", "timeout_loop"}

\* Manager.__init__, and the tasks before any call
manager_init ==
    /\ limit \in 0..MaxLimit
    /\ timeout \in Timeouts
    /\ nadded = 0
    /\ tasks = <<>> /\ running = <<>> /\ done = <<>>
    /\ pc = "init"
    /\ wait = None /\ cur = 0 /\ idx = 0
    /\ still_running = <<>> /\ min_timeleft = None
    /\ aborted = FALSE /\ abort_at = ""
    /\ now = 0
    /\ outdir = [t \in TaskIds |-> FALSE]
    /\ tstate = [t \in TaskIds |-> "new"]
    /\ start_time = [t \in TaskIds |-> 0]
    /\ overran = [t \in TaskIds |-> FALSE]
    /\ calls = [t \in TaskIds |-> {}]
    /\ examined = [t \in TaskIds |-> FALSE]
    /\ reported = <<>>

\* IOMap.__init__
iomap_init ==
    /\ map = [fd \in {} |-> 0] /\ poller = [fd \in {} |-> 0]
    /\ io_call = [op |-> "none", fd |-> 0, handler |-> 0, old |-> 0,
                  read |-> FALSE, write |-> FALSE]
    /\ io_err = "none"
    /\ ready = <<>> /\ handling = FALSE

\* Writer.__init__: an empty queue; st is "none" while no Writer exists and
\* "running" once Writer().start() has been called
writer_init(st) ==
    /\ writer = (st # "none")
    /\ enqueued = <<>> /\ whead = 1 /\ wstatus = st

Init == manager_init /\ iomap_init /\ writer_init("none")

\* add_task(task), called before run(); the task is numbered in order of
\* addition and o is its "outdir or errdir" attribute
add_task(o) ==
    /\ pc = "init"
    /\ Len(tasks) < MaxTasks
    /\ tasks' = Append(tasks, Len(tasks) + 1)
    /\ nadded' = nadded + 1
    /\ outdir' = [outdir EXCEPT ![Len(tasks) + 1] = o]
    /\ UNCHANGED <<abort_at, limit, timeout, running, done, pc, wait, cur, idx,
                   still_running, min_timeleft, aborted, now, tstate,
                   start_time, overran, calls, examined, reported>>
    /\ UNCHANGED <<wvars, iovars>>

\* run(): the for/else that creates and starts the Writer
run_begin ==
    /\ pc = "init"
    /\ writer' = (\E i \in 1..Len(tasks) : outdir[tasks[i]])
    /\ wstatus' = IF writer' THEN "running" ELSE "none"
    /\ pc' = "start_test"
    /\ UNCHANGED <<abort_at, limit, timeout, nadded, tasks, running, done, wait, cur, idx,
                   still_running, min_timeleft, aborted, now, outdir, tstate,
                   start_time, overran, calls, examined, reported>>
    /\ UNCHANGED <<enqueued, whead, iovars>>

\* start_tasks(): evaluation of the while condition; on exit, wait = None
start_test ==
    /\ pc = "start_test"
    /\ IF start_tasks_cond
         THEN pc' = "start_pop" /\ wait' = wait
         ELSE pc' = "loop_test" /\ wait' = None
    /\ UNCHANGED <<abort_at, limit, timeout, nadded, tasks, running, done, cur, idx,
                   still_running, min_timeleft, aborted, now, outdir, tstate,
                   start_time, overran, calls, examined, reported>>
    /\ UNCHANGED <<wvars, iovars>>

\* as start_pop, with pop() in place of pop(0)
start_pop_last ==
    /\ pc = "start_pop"
    /\ cur' = tasks[Len(tasks)]
    /\ tasks' = SubSeq(tasks, 1, Len(tasks) - 1)
    /\ pc' = "start_append"
    /\ UNCHANGED <<abort_at, limit, timeout, nadded, running, done, wait, idx,
                   still_running, min_timeleft, aborted, now, outdir, tstate,
                   start_time, overran, calls, examined, reported>>
    /\ UNCHANGED <<wvars, iovars>>

\* start_tasks(): task = self.tasks.pop(0)
start_pop ==
    /\ pc = "start_pop"
    /\ cur' = Head(tasks)
    /\ tasks' = Tail(tasks)
    /\ pc' = "start_append"
    /\ UNCHANGED <<abort_at, limit, timeout, nadded, running, done, wait, idx,
                   still_running, min_timeleft, aborted, now, outdir, tstate,
                   start_time, overran, calls, examined, reported>>
    /\ UNCHANGED <<wvars, iovars>>

\* start_tasks(): self.running.append(task)
start_append ==
    /\ pc = "start_append"
    /\ running' = Append(running, cur)
    /\ pc' = "start_call"
    /\ UNCHANGED <<abort_at, limit, timeout, nadded, tasks, done, wait, cur, idx,
                   still_running, min_timeleft, aborted, now, outdir, tstate,
                   start_time, overran, calls, examined, reported>>
    /\ UNCHANGED <<wvars, iovars>>

\* start_tasks(): task.start(self.iomap, writer)
start_call ==
    /\ pc = "start_call"
    /\ tstate' = [tstate EXCEPT ![cur] = "active"]
    /\ start_time' = [start_time EXCEPT ![cur] = now]
    /\ calls' = [calls EXCEPT ![cur] = @ \cup {"start"}]
    /\ cur' = 0
    /\ pc' = "start_test"
    /\ UNCHANGED <<abort_at, limit, timeout, nadded, tasks, running, done, wait, idx,
                   still_running, min_timeleft, aborted, now, outdir,
                   overran, examined, reported>>
    /\ UNCHANGED <<wvars, iovars>>

\* run(): evaluation of `while self.running or self.tasks` and the clamp
loop_test ==
    /\ pc = "loop_test"
    /\ IF run_loop_cond
         THEN pc' = "poll" /\ wait' = clamp_wait(wait)
         ELSE pc' = "shutdown" /\ wait' = wait
    /\ UNCHANGED <<abort_at, limit, timeout, nadded, tasks, running, done, cur, idx,
                   still_running, min_timeleft, aborted, now, outdir, tstate,
                   start_time, overran, calls, examined, reported>>
    /\ UNCHANGED <<wvars, iovars>>

\* self.iomap.poll(wait): self.poller.poll(timeout) returns after d ticks, d
\* at most the wait; the handlers of the ready descriptors are then called
poll_wake(d) ==
    /\ pc = "poll"
    /\ d \in 0..wait
    /\ now + d <= MaxTime
    /\ now' = now + d
    /\ overran' = [t \in TaskIds |->
                     overran[t] \/ (/\ timeout > 0
                                    /\ tstate[t] = "active"
                                    /\ now + d - start_time[t] > timeout)]
    /\ pc' = "dispatch"
    /\ UNCHANGED <<abort_at, limit, timeout, nadded, tasks, running, done, wait, cur, idx,
                   still_running, min_timeleft, aborted, outdir, tstate,
                   start_time, calls, examined, reported>>
    /\ UNCHANGED <<wvars, iovars>>

\* self.iomap.poll(wait) returns; check_tasks(): still_running = []
poll_return ==
    /\ pc = "dispatch"
    /\ still_running' = <<>>
    /\ idx' = 1
    /\ pc' = "check_test"
    /\ UNCHANGED <<abort_at, limit, timeout, nadded, tasks, running, done, wait, cur,
                   min_timeleft, aborted, now, outdir, tstate,
                   start_time, overran, calls, examined, reported>>
    /\ UNCHANGED <<wvars, iovars>>

\* check_tasks(): one turn of the for loop, up to the call of finished()
check_test ==
    /\ pc = "check_test"
    /\ IF idx > Len(running)
         THEN pc' = "check_assign" /\ UNCHANGED <<still_running, idx>>
         ELSE IF task_running(running[idx])
                THEN /\ still_running' = Append(still_running, running[idx])
                     /\ idx' = idx + 1
                     /\ pc' = "check_test"
                ELSE pc' = "fin_append" /\ UNCHANGED <<still_running, idx>>
    /\ UNCHANGED <<abort_at, limit, timeout, nadded, tasks, running, done, wait, cur,
                   min_timeleft, aborted, now, outdir, tstate,
                   start_time, overran, calls, examined, reported>>
    /\ UNCHANGED <<wvars, iovars>>

\* finished(task) called from check_tasks(): self.done.append(task)
fin_append ==
    /\ pc = "fin_append"
    /\ done' = done_append(done, running[idx])
    /\ pc' = "fin_report"
    /\ UNCHANGED <<abort_at, limit, timeout, nadded, tasks, running, wait, cur, idx,
                   still_running, min_timeleft, aborted, now, outdir, tstate,
                   start_time, overran, calls, examined, reported>>
    /\ UNCHANGED <<wvars, iovars>>

\* finished(task) called from check_tasks(): n = len(self.done); task.report(n)
fin_report ==
    /\ pc = "fin_report"
    /\ reported' = report_call(reported, done, running[idx], "check_tasks")
    /\ idx' = idx + 1
    /\ pc' = "check_test"
    /\ UNCHANGED <<abort_at, limit, timeout, nadded, tasks, running, done, wait, cur,
                   still_running, min_timeleft, aborted, now, outdir, tstate,
                   start_time, overran, calls, examined>>
    /\ UNCHANGED <<wvars, iovars>>

\* check_tasks(): self.running = still_running
check_assign ==
    /\ pc = "check_assign"
    /\ running' = still_running
    /\ still_running' = <<>>
    /\ idx' = 0
    /\ pc' = "timeout_test"
    /\ UNCHANGED <<abort_at, limit, timeout, nadded, tasks, done, wait, cur,
                   min_timeleft, aborted, now, outdir, tstate,
                   start_time, overran, calls, examined, reported>>
    /\ UNCHANGED <<wvars, iovars>>

\* check_timeout(): the early return, or min_timeleft = None
timeout_test ==
    /\ pc = "timeout_test"
    /\ IF check_timeout_disabled
         THEN pc' = "loop_test" /\ wait' = None /\ idx' = 0
         ELSE pc' = "timeout_loop" /\ wait' = wait /\ idx' = 1
    /\ min_timeleft' = None
    /\ UNCHANGED <<abort_at, limit, timeout, nadded, tasks, running, done, cur,
                   still_running, aborted, now, outdir, tstate,
                   start_time, overran, calls, examined, reported>>
    /\ UNCHANGED <<wvars, iovars>>

\* check_timeout(): one turn of the for loop, or the return after the loop
timeout_loop ==
    /\ pc = "timeout_loop"
    /\ IF idx > Len(running)
         THEN /\ wait' = check_timeout_result(min_timeleft)
              /\ min_timeleft' = None
              /\ idx' = 0
              /\ pc' = "loop_test"
              /\ UNCHANGED <<calls, examined>>
         ELSE LET t == running[idx]
                  timeleft == timeleft_of(t)
              IN  /\ IF is_timedout(timeleft)
                       THEN /\ calls' = [calls EXCEPT ![t] = @ \cup {"timedout"}]
                            /\ min_timeleft' = min_timeleft
                       ELSE /\ calls' = calls
                            /\ min_timeleft' =
                                 IF min_timeleft = None \/ timeleft < min_timeleft
                                   THEN timeleft ELSE min_timeleft
                  /\ examined' = [examined EXCEPT ![t] = @ \/ elapsed(t) >= timeout]
                  /\ idx' = idx + 1
                  /\ pc' = "timeout_loop"
                  /\ wait' = wait
    /\ UNCHANGED <<abort_at, limit, timeout, nadded, tasks, running, done, cur,
                   still_running, aborted, now, outdir, tstate,
                   start_time, overran, reported>>
    /\ UNCHANGED <<wvars, iovars>>

\* KeyboardInterrupt raised in the main thread inside the try block: the
\* statement in progress is abandoned and the except clause runs
keyboard_interrupt ==
    /\ pc \in TryPcs
    /\ ~aborted
    /\ aborted' = TRUE
    /\ abort_at' = IF pc \in {"poll", "dispatch"} THEN "poll" ELSE "step"
    /\ pc' = "int_running"
    /\ idx' = 1
    /\ cur' = 0 /\ still_running' = <<>> /\ min_timeleft' = None
    /\ UNCHANGED <<limit, timeout, nadded, tasks, running, done, wait,
                   now, outdir, tstate,
                   start_time, overran, calls, examined, reported>>
    /\ UNCHANGED <<wvars, iovars>>

\* interrupted(): one turn of `for task in self.running`
int_running ==
    /\ pc = "int_running"
    /\ IF idx > Len(running)
         THEN /\ pc' = "int_tasks" /\ idx' = 1
              /\ UNCHANGED <<calls, done, reported>>
         ELSE LET t == running[idx]
              IN  /\ calls' = [calls EXCEPT ![t] = @ \cup {"interrupted"}]
                  /\ done' = done_append(done, t)
                  /\ reported' = report_call(reported, done', t, "interrupted")
                  /\ idx' = idx + 1
                  /\ pc' = "int_running"
    /\ UNCHANGED <<abort_at, limit, timeout, nadded, tasks, running, wait, cur,
                   still_running, min_timeleft, aborted, now, outdir, tstate,
                   start_time, overran, examined>>
    /\ UNCHANGED <<wvars, iovars>>

\* as int_tasks, but finished(task) is not called for the cancelled tasks
int_tasks_no_finished ==
    /\ pc = "int_tasks"
    /\ IF idx > Len(tasks)
         THEN /\ pc' = "shutdown" /\ idx' = 0
              /\ UNCHANGED <<calls, done, reported>>
         ELSE LET t == tasks[idx]
              IN  /\ calls' = [calls EXCEPT ![t] = @ \cup {"cancel"}]
                  /\ done' = done /\ reported' = reported
                  /\ idx' = idx + 1
                  /\ pc' = "int_tasks"
    /\ UNCHANGED <<abort_at, limit, timeout, nadded, tasks, running, wait, cur,
                   still_running, min_timeleft, aborted, now, outdir, tstate,
                   start_time, overran, examined>>
    /\ UNCHANGED <<wvars, iovars>>

\* interrupted(): one turn of `for task in self.tasks`
int_tasks ==
    /\ pc = "int_tasks"
    /\ IF idx > Len(tasks)
         THEN /\ pc' = "shutdown" /\ idx' = 0
              /\ UNCHANGED <<calls, done, reported>>
         ELSE LET t == tasks[idx]
              IN  /\ calls' = [calls EXCEPT ![t] = @ \cup {"cancel"}]
                  /\ done' = done_append(done, t)
                  /\ reported' = report_call(reported, done', t, "cancel")
                  /\ idx' = idx + 1
                  /\ pc' = "int_tasks"
    /\ UNCHANGED <<abort_at, limit, timeout, nadded, tasks, running, wait, cur,
                   still_running, min_timeleft, aborted, now, outdir, tstate,
                   start_time, overran, examined>>
    /\ UNCHANGED <<wvars, iovars>>

\* run(): if writer: writer.queue.put((Writer.ABORT, None))
shutdown ==
    /\ pc = "shutdown"
    /\ IF writer
         THEN /\ enqueued' = queue_put(enqueued, ABORT, None)
              /\ pc' = "join"
         ELSE /\ enqueued' = enqueued
              /\ pc' = "returned"
    /\ UNCHANGED <<abort_at, limit, timeout, nadded, tasks, running, done, wait, cur, idx,
                   still_running, min_timeleft, aborted, now, outdir, tstate,
                   start_time, overran, calls, examined, reported>>
    /\ UNCHANGED <<writer, whead, wstatus, iovars>>

\* run(): writer.join() returns once the Writer thread has ended
join ==
    /\ pc = "join"
    /\ wstatus \in {"returned", "dead"}
    /\ pc' = "returned"
    /\ UNCHANGED <<abort_at, limit, timeout, nadded, tasks, running, done, wait, cur, idx,
                   still_running, min_timeleft, aborted, now, outdir, tstate,
                   start_time, overran, calls, examined, reported>>
    /\ UNCHANGED <<wvars, iovars>>

\* ---- Task (external) ---------------------------------------------------
\* The process of a started task ends.  The Manager learns of it only through
\* task.running() in check_tasks(), so the end is placed in the poll() that
\* precedes that observation (where the task's handlers see its pipes close).
task_exit(t) ==
    /\ pc = "dispatch"
    /\ tstate[t] = "active"
    /\ tstate' = [tstate EXCEPT ![t] = "exited"]
    /\ UNCHANGED <<abort_at, limit, timeout, nadded, tasks, running, done, pc, wait, cur, idx,
                   still_running, min_timeleft, aborted, now, outdir,
                   start_time, overran, calls, examined, reported>>
    /\ UNCHANGED <<wvars, iovars>>

\* ---- Writer ------------------------------------------------------------
\* destinations closed by the entries before position k of the queue
closed_before(k) ==
    {enqueued[i][1] : i \in {j \in 1..(k - 1) :
                               j <= Len(enqueued) /\ enqueued[j][2] = EOF
                                                  /\ enqueued[j][1] # ABORT}}

\* print >>file, data raises ValueError when file has been closed
write_fails(k) == enqueued[k][1] \in closed_before(k)

\* Writer.write(fd, data), called by a handler of task t during poll(); the
\* destination is the task's own file, the payload a line or Writer.EOF
writer_write(t, eof) ==
    /\ pc = "dispatch"
    /\ writer
    /\ outdir[t]
    /\ t \in Range(running)
    /\ "start" \in calls[t]
    /\ Len(enqueued) < MaxWrites
    /\ enqueued' = queue_put(enqueued, t, IF eof THEN EOF ELSE Len(enqueued) + 1)
    /\ UNCHANGED <<mvars, writer, whead, wstatus, iovars>>

\* as writer_run, but the shutdown marker does not end the loop
writer_run_no_return(io_fails) ==
    /\ wstatus = "running"
    /\ whead <= Len(enqueued)
    /\ whead' = whead + 1
    /\ wstatus' = IF enqueued[whead][1] = ABORT THEN "running"
                  ELSE IF enqueued[whead][2] = EOF THEN "running"
                  ELSE IF write_fails(whead) \/ io_fails THEN "dead"
                  ELSE "running"
    /\ UNCHANGED <<mvars, writer, enqueued, iovars>>

\* Writer.run(): one turn of the while loop.  io_fails is the outcome of the
\* print statement when the file is open: an IOError (disk full, EIO) or not.
\* Nothing in run() catches an exception, so it ends the thread.
writer_run(io_fails) ==
    /\ wstatus = "running"
    /\ whead <= Len(enqueued)
    /\ whead' = whead + 1
    /\ wstatus' = IF enqueued[whead][1] = ABORT THEN "returned"
                  ELSE IF enqueued[whead][2] = EOF THEN "running"
                  ELSE IF write_fails(whead) \/ io_fails THEN "dead"
                  ELSE "running"
    /\ UNCHANGED <<mvars, writer, enqueued, iovars>>

Next ==
    \/ \E o \in BOOLEAN : add_task(o)
    \/ run_begin
    \/ start_test
    \/ start_pop
    \/ start_append
    \/ start_call
    \/ loop_test
    \/ \E d \in 0..MaxTime : poll_wake(d)
    \/ poll_return
    \/ check_test
    \/ fin_append
    \/ fin_report
    \/ check_assign
    \/ timeout_test
    \/ timeout_loop
    \/ keyboard_interrupt
    \/ int_running
    \/ int_tasks
    \/ shutdown
    \/ join
    \/ \E t \in TaskIds : task_exit(t)
    \/ \E t \in TaskIds, eof \in BOOLEAN : writer_write(t, eof)
    \/ \E f \in BOOLEAN : writer_run(f)

Spec == Init /\ [][Next]_vars

\* ---- Writer on its own: any client, any order of calls -----------------
\* Writer.write(fd, data) called from another thread
client_write(fd, eof) ==
    /\ Len(enqueued) < MaxQueue
    /\ enqueued' = queue_put(enqueued, fd, IF eof THEN EOF ELSE Len(enqueued) + 1)
    /\ UNCHANGED <<mvars, writer, whead, wstatus, iovars>>

\* writer.queue.put((Writer.ABORT, None)), as run() does after its loop
client_abort ==
    /\ Len(enqueued) < MaxQueue
    /\ enqueued' = queue_put(enqueued, ABORT, None)
    /\ UNCHANGED <<mvars, writer, whead, wstatus, iovars>>

WriterInit ==
    /\ manager_init /\ limit = 1 /\ timeout = 0
    /\ iomap_init
    /\ writer_init("running")

WriterNext ==
    \/ \E fd \in Files, eof \in BOOLEAN : client_write(fd, eof)
    \/ client_abort
    \/ \E f \in BOOLEAN : writer_run(f)

WriterSpec == WriterInit /\ [][WriterNext]_vars

\* ---- IOMap on its own: any sequence of register, unregister and poll ----
\* m[k] = v on a dict that keeps the value k already has
dict_set_keep(m, k, v) == [x \in DOMAIN m \cup {k} |-> IF x \in DOMAIN m THEN m[x] ELSE v]

\* m[k] = v on a dict
dict_set(m, k, v) == [x \in DOMAIN m \cup {k} |-> IF x = k THEN v ELSE m[x]]

\* del m[k] on a dict
dict_del(m, k) == [x \in DOMAIN m \ {k} |-> m[x]]

\* register(): the eventmask built from read and write
eventmask_of(read, write) ==
    (IF read THEN POLLIN ELSE 0) + (IF write THEN POLLOUT ELSE 0)

\* the record of an IOMap call; old is the handler fd had with the poller
\* before the call (0 if it was not registered)
call_record(op, fd, handler, read, write) ==
    [op |-> op, fd |-> fd, handler |-> handler,
     old |-> IF fd \in DOMAIN poller /\ fd \in DOMAIN map THEN map[fd] ELSE 0,
     read |-> read, write |-> write]

\* register() and unregister() are called from outside poll(), or by the
\* handler that poll() is executing
may_call == ready = <<>> \/ handling

\* an exception raised in a handler leaves the handler and poll()
after_call(err) ==
    IF err # "none" /\ handling
      THEN ready' = <<>> /\ handling' = FALSE
      ELSE UNCHANGED <<ready, handling>>

\* IOMap.register(fd, handler, read, write): the handler is stored first, the
\* mask is checked after; select.poll.register accepts a descriptor that is
\* already registered and replaces its mask
register(fd, handler, read, write) ==
    LET eventmask == eventmask_of(read, write)
    IN  /\ may_call
        /\ map' = dict_set(map, fd, handler)
        /\ IF eventmask = 0
             THEN poller' = poller /\ io_err' = "ValueError"
             ELSE poller' = dict_set(poller, fd, eventmask) /\ io_err' = "none"
        /\ io_call' = call_record("register", fd, handler, read, write)
        /\ after_call(io_err')
        /\ UNCHANGED <<mvars, wvars>>

\* IOMap.unregister(fd): select.poll.unregister raises KeyError for a
\* descriptor that is not registered, before the map is touched
unregister(fd) ==
    /\ may_call
    /\ IF fd \notin DOMAIN poller
         THEN map' = map /\ poller' = poller /\ io_err' = "KeyError"
         ELSE /\ poller' = dict_del(poller, fd)
              /\ IF fd \notin DOMAIN map
                   THEN map' = map /\ io_err' = "KeyError"
                   ELSE map' = dict_del(map, fd) /\ io_err' = "none"
    /\ io_call' = call_record("unregister", fd, 0, FALSE, FALSE)
    /\ after_call(io_err')
    /\ UNCHANGED <<mvars, wvars>>

\* the lists self.poller.poll(timeout) can return: registered descriptors,
\* each at most once, in any order
ready_lists ==
    {rl \in UNION {[1..n -> DOMAIN poller] : n \in 1..Cardinality(DOMAIN poller)} :
        \A i, j \in 1..Len(rl) : i # j => rl[i] # rl[j]}

\* IOMap.poll(): self.poller.poll(timeout) returns the ready list rl
poll_begin(rl) ==
    /\ ready = <<>> /\ ~handling
    /\ rl \in ready_lists
    /\ ready' = rl
    /\ io_call' = call_record("poll", 0, 0, FALSE, FALSE)
    /\ io_err' = "none"
    /\ UNCHANGED <<map, poller, handling, mvars, wvars>>

\* IOMap.poll(): handler = self.map[fd] for the next ready descriptor (a
\* KeyError ends poll()), then the call of the handler
poll_dispatch ==
    /\ ready # <<>> /\ ~handling
    /\ LET fd == Head(ready)
       IN  IF fd \in DOMAIN map
             THEN /\ handling' = TRUE
                  /\ ready' = ready
                  /\ io_call' = call_record("dispatch", fd, map[fd], FALSE, FALSE)
                  /\ io_err' = "none"
             ELSE /\ handling' = FALSE
                  /\ ready' = <<>>
                  /\ io_call' = call_record("dispatch", fd, 0, FALSE, FALSE)
                  /\ io_err' = "KeyError"
    /\ UNCHANGED <<map, poller, mvars, wvars>>

\* IOMap.poll(): the handler returns and the for loop moves on
handler_return ==
    /\ handling
    /\ ready' = Tail(ready)
    /\ handling' = FALSE
    /\ io_call' = call_record("return", Head(ready), 0, FALSE, FALSE)
    /\ io_err' = "none"
    /\ UNCHANGED <<map, poller, mvars, wvars>>

IOInit == Init /\ limit = 1 /\ timeout = 0

IONext ==
    \/ \E fd \in FDs, h \in Handlers, r \in BOOLEAN, w \in BOOLEAN :
           register(fd, h, r, w)
    \/ \E fd \in FDs : unregister(fd)
    \/ \E rl \in ready_lists : poll_begin(rl)
    \/ poll_dispatch
    \/ handler_return

IOSpec == IOInit /\ [][IONext]_vars

\* ---- scheduling assumptions for liveness -------------------------------
\* the statements of the main thread, other than the arrival of an interrupt
main_step ==
    \/ \E o \in BOOLEAN : add_task(o)
    \/ run_begin \/ start_test \/ start_pop \/ start_append \/ start_call
    \/ loop_test \/ (\E d \in 0..MaxTime : poll_wake(d)) \/ poll_return
    \/ check_test \/ fin_append \/ fin_report \/ check_assign
    \/ timeout_test \/ timeout_loop \/ int_running \/ int_tasks
    \/ shutdown \/ join

\* The main thread and the Writer thread keep running, and every started
\* task's process ends at some point (it can end only while poll() runs,
\* which run() reaches again and again: strong fairness).
FairSpec ==
    /\ Init /\ [][Next]_vars
    /\ WF_vars(main_step)
    /\ WF_vars(\E f \in BOOLEAN : writer_run(f))
    /\ \A t \in TaskIds : SF_vars(task_exit(t))

\* ---- claims ------------------------------------------------------------
\* C1: whenever run() has returned, normally or after a user abort, done
\* holds exactly the N added tasks, each once, and the k-th task appended to
\* done was reported with report(k).
C1_DoneExactlyOnceInOrder ==
    pc = "returned" =>
        /\ Len(done) = nadded
        /\ Range(done) = 1..nadded
        /\ Len(reported) = Len(done)
        /\ \A k \in 1..Len(reported) :
               reported[k].task = done[k] /\ reported[k].n = k

\* C2: in every state the running list holds at most limit tasks.
C2_RunningAtMostLimit == Len(running) <= limit

\* a full running list with a task left pending, inside poll()
C2_Witness ==
    /\ limit > 0 /\ Len(running) = limit /\ tasks # <<>>
    /\ pc = "dispatch"

\* C3: every iteration of run()'s loop admits pending tasks up to the limit:
\* whenever the loop polls, no task is pending while a running slot is free.
C3_AdmitsEveryIteration ==
    pc = "poll" => (tasks = <<>> \/ Len(running) >= limit)

\* C4: with limit >= 1, no user abort and every started task ending, run()
\* returns with the pending queue and the running list empty.
C4_RunReturns ==
    (limit >= 1) =>
        <>(aborted \/ (pc = "returned" /\ tasks = <<>> /\ running = <<>>))

\* C5 as stated: a task that was still active later than timeout after its
\* start has had timedout() called by the time check_tasks() reports it.
C5_OverranImpliesTimedout ==
    \A k \in 1..Len(reported) :
        (reported[k].by = "check_tasks" /\ overran[reported[k].task])
            => "timedout" \in calls[reported[k].task]

\* C5 (amended): every task that check_timeout() finds in running with
\* elapsed() >= timeout has had timedout() called on it.
C5_ExaminedOverdueIsTimedout ==
    \A t \in TaskIds : examined[t] => "timedout" \in calls[t]

\* a task found overdue by check_timeout(), then reported by check_tasks()
C5_Witness ==
    \E k \in 1..Len(reported) :
        /\ reported[k].by = "check_tasks"
        /\ examined[reported[k].task]
        /\ "timedout" \in calls[reported[k].task]

\* C6: with timeout <= 0, timedout() is never called on any task.
C6_NoTimedoutWhenDisabled ==
    timeout <= 0 => \A t \in TaskIds : "timedout" \notin calls[t]

\* check_timeout() has run with a task in running whose elapsed time is positive
C6_Witness ==
    /\ timeout <= 0 /\ pc = "loop_test"
    /\ \E i \in 1..Len(running) : elapsed(running[i]) > 0

\* C7: register(fd, handler, read=False, write=False) raises the
\* invalid-argument error and leaves the map and the poller as they were.
C7_FailedRegisterChangesNothing ==
    [][(io_call'.op = "register" /\ ~io_call'.read /\ ~io_call'.write)
          => (io_err' = "ValueError" /\ map' = map /\ poller' = poller)]_vars

\* C8: after any sequence of register and unregister calls the descriptors
\* with a handler are exactly those registered with the poller, and an
\* unregister of a descriptor that is not registered fails and changes neither.
C8_MapMatchesPoller ==
    /\ [](DOMAIN map = DOMAIN poller)
    /\ [][(io_call'.op = "unregister" /\ io_call'.fd \notin DOMAIN poller)
             => (io_err' = "KeyError" /\ map' = map /\ poller' = poller)]_vars

\* position of the first shutdown marker in the queue (past its end if none)
abort_pos ==
    IF \E i \in 1..Len(enqueued) : enqueued[i][1] = ABORT
      THEN CHOOSE i \in 1..Len(enqueued) :
               /\ enqueued[i][1] = ABORT
               /\ \A j \in 1..(i - 1) : enqueued[j][1] # ABORT
      ELSE Len(enqueued) + 1

\* C9: a failure on an entry for one destination does not stop the Writer:
\* no entry for another destination, queued behind the failed entry and
\* before the shutdown marker, is left with a Writer that has ended.
C9_FailureDoesNotStopWriter ==
    wstatus = "dead" =>
        ~ \E j \in whead..Len(enqueued) :
              j < abort_pos /\ enqueued[j][1] # enqueued[whead - 1][1]

\* entry i of the queue has been written to its file, or has closed it
entry_done(i) == i < whead /\ ~(wstatus = "dead" /\ i = whead - 1)

\* C10: when run() has returned and a Writer existed, every entry enqueued
\* before the shutdown marker has been written or closed.
C10_AllFlushedAtReturn ==
    (pc = "returned" /\ writer) =>
        \A i \in 1..Len(enqueued) : i < abort_pos => entry_done(i)

\* number of leading queue entries the Writer has carried out
n_done == IF wstatus = "dead" THEN whead - 2 ELSE whead - 1

\* the payloads written to file d so far, in the order written
written(d) ==
    SelectSeq(SubSeq(enqueued, 1, n_done), LAMBDA e : e[1] = d /\ e[2] # EOF)

\* position of the first close marker for file d (past the end if none)
close_pos(d) ==
    IF \E i \in 1..Len(enqueued) : enqueued[i] = <<d, EOF>>
      THEN CHOOSE i \in 1..Len(enqueued) :
               /\ enqueued[i] = <<d, EOF>>
               /\ \A j \in 1..(i - 1) : enqueued[j] # <<d, EOF>>
      ELSE Len(enqueued) + 1

\* the payloads enqueued for d before its close marker and the shutdown marker
expected(d) ==
    LET last == (IF close_pos(d) < abort_pos THEN close_pos(d) ELSE abort_pos) - 1
    IN  SelectSeq(SubSeq(enqueued, 1, last), LAMBDA e : e[1] = d)

IsPrefix(a, b) == Len(a) <= Len(b) /\ SubSeq(b, 1, Len(a)) = a

\* C11: entries are processed in submission order: what has been written to d
\* is a prefix of the payloads enqueued for d before its close marker, nothing
\* is written to d after its close, and once the Writer has ended every
\* destination (other than the one whose entry failed) has received all of
\* them and has been closed if its close marker was queued.
C11_PerDestinationOrderComplete ==
    /\ \A d \in Files : IsPrefix(written(d), expected(d))
    /\ wstatus \in {"returned", "dead"} =>
           \A d \in Files :
               (wstatus = "dead" => d # enqueued[whead - 1][1]) =>
                   /\ written(d) = expected(d)
                   /\ close_pos(d) < abort_pos => d \in closed_before(n_done + 1)

\* C15: the Writer never goes past the shutdown marker: having dequeued it the
\* thread has returned, and no entry behind it is ever dequeued.
C15_NothingAfterShutdown ==
    /\ whead <= abort_pos + 1
    /\ whead = abort_pos + 1 => wstatus = "returned"

\* the Writer has returned and an entry enqueued after the marker is left
C15_Witness ==
    /\ wstatus = "returned"
    /\ whead = abort_pos + 1
    /\ Len(enqueued) > abort_pos
    /\ enqueued[Len(enqueued)][1] # ABORT

\* number of times task t occurs in the list s
Count(s, t) == Cardinality({i \in 1..Len(s) : s[i] = t})

\* C12: after an abort raised while run() was inside poll(), interrupted() has
\* been called on every running task and cancel() on every pending task, and
\* each of them is in done exactly once; run() returns.
C12_AbortDuringPoll ==
    (abort_at = "poll" /\ pc \in {"shutdown", "join", "returned"}) =>
        /\ \A i \in 1..Len(running) :
               "interrupted" \in calls[running[i]] /\ Count(done, running[i]) = 1
        /\ \A i \in 1..Len(tasks) :
               "cancel" \in calls[tasks[i]] /\ Count(done, tasks[i]) = 1

\* limit 1, two tasks, abort inside poll(): run() has returned, task 1 was
\* interrupted, task 2 cancelled, both are in done
C12_Witness ==
    /\ limit = 1 /\ nadded = 2
    /\ abort_at = "poll" /\ pc = "returned"
    /\ "interrupted" \in calls[1] /\ "cancel" \in calls[2]
    /\ done = <<1, 2>>

\* C13: each added task is in exactly one of tasks, running and done; stated
\* for the states in which no method of the Manager is part-way through an
\* update of the lists.
C13_ExactlyOneCollection ==
    pc \in {"init", "loop_test", "poll", "dispatch", "shutdown", "join", "returned"} =>
        \A t \in 1..nadded :
            Count(tasks, t) + Count(running, t) + Count(done, t) = 1

\* C14: an abort never cuts a step of the loop short, so no task is passed to
\* finished() twice and, when run() has returned, no task that left the
\* pending queue is missing from done.
C14_AbortNeverPreempts ==
    /\ \A t \in TaskIds : Count(done, t) <= 1
    /\ pc = "returned" =>
           \A t \in 1..nadded : Count(tasks, t) = 0 => Count(done, t) = 1

\* the positive remaining budgets of the running tasks
positive_left ==
    {timeleft_of(running[i]) : i \in 1..Len(running)} \cap 1..(MaxTime + 3)

SetMin(S) == CHOOSE x \in S : \A y \in S : x <= y

\* C17: with timeout > 0, check_timeout() returns the smallest positive
\* remaining budget of the running tasks, and None when there is none.
C17_CheckTimeoutResult ==
    [][(pc = "timeout_loop" /\ pc' = "loop_test")
          => wait' = (IF positive_left = {} THEN None
                      ELSE Max(0, SetMin(positive_left)))]_vars

\* C18: every poll() gets a wait that is a number, at least one unit, and,
\* with timeout > 0, at most the smallest positive remaining budget unless
\* that budget is under one unit.
C18_PollWaitBounded ==
    pc = "poll" =>
        /\ wait # None
        /\ wait >= OneUnit
        /\ (timeout > 0 /\ positive_left # {} /\ SetMin(positive_left) >= OneUnit)
               => wait <= SetMin(positive_left)

\* a poll() after the first, whose wait is the remaining budget of a task
C18_Witness ==
    /\ pc = "poll" /\ timeout > 0 /\ now > 0
    /\ positive_left # {}
    /\ wait = SetMin(positive_left)

\* a is a subsequence of b with the same relative order
InOrderOf(a, b) ==
    /\ Range(a) \subseteq Range(b)
    /\ \A i, j \in 1..Len(a) :
           i < j => \E k, l \in 1..Len(b) : k < l /\ b[k] = a[i] /\ b[l] = a[j]

\* C19: start() is never called on a task before it has been called on every
\* task added earlier, and check_tasks() leaves the tasks that are still
\* running in the order they had.
C19_StartedInOrder ==
    /\ [](\A a, b \in TaskIds :
            (a < b /\ "start" \in calls[b]) => "start" \in calls[a])
    /\ [][(pc = "check_assign" /\ pc' = "timeout_test")
             => InOrderOf(running', running)]_vars

\* check_tasks() has just rebuilt running with two tasks still in it
C19_Witness ==
    /\ pc = "timeout_test"
    /\ Len(running) = 2
    /\ "start" \in calls[1] /\ "start" \in calls[2]

\* C16: whatever the handlers register or unregister during a poll(), poll()
\* finds a handler for every descriptor left in its ready list and calls the
\* handler now registered for it.
C16_DispatchSurvivesMutation ==
    io_call.op = "dispatch" =>
        /\ io_err = "none"
        /\ io_call.fd \in DOMAIN map /\ io_call.handler = map[io_call.fd]

\* C20 as stated: register() on a descriptor that is registered fails and
\* leaves its handler and mask as they were (taken for the calls that ask
\* for read or write, which are not rejected for their arguments).
C20_ReRegisterFails ==
    [][(/\ io_call'.op = "register"
        /\ io_call'.fd \in DOMAIN poller
        /\ eventmask_of(io_call'.read, io_call'.write) # 0)
          => (io_err' # "none" /\ map' = map /\ poller' = poller)]_vars

\* C20 (amended): register() on a descriptor that is registered, with read or
\* write set, succeeds and replaces its handler and its mask.
C20_ReRegisterReplaces ==
    [][(/\ io_call'.op = "register"
        /\ io_call'.fd \in DOMAIN poller
        /\ eventmask_of(io_call'.read, io_call'.write) # 0)
          => (/\ io_err' = "none"
              /\ io_call'.fd \in DOMAIN map' /\ io_call'.fd \in DOMAIN poller'
              /\ map'[io_call'.fd] = io_call'.handler
              /\ poller'[io_call'.fd] = eventmask_of(io_call'.read, io_call'.write))]_vars

\* a register() that has replaced the handler of a registered descriptor
C20_Witness ==
    /\ io_call.op = "register" /\ io_err = "none"
    /\ io_call.old # 0 /\ io_call.old # io_call.handler
    /\ map[io_call.fd] = io_call.handler

====
